---- MODULE Spec2Model ----
(***************************************************************************)
(* Model of @thalesrc/resize-manager: the per-target cache of base resize  *)
(* streams, the element and viewport providers, the GTResizeObserver       *)
(* accessors (resize, throttleBy, resizeStart, resizeEnd) and the          *)
(* ResizeManager registry.  Streams are modelled by the state their rxjs   *)
(* operators keep per subscription; time is a discrete millisecond clock.  *)
(***************************************************************************)
EXTENDS Integers, Sequences, FiniteSets, TLC

\* ------------------------------------------------------------ bounds
MaxObservers == 2
MaxSubs == 2
MaxEvents == 3
MaxTime == 4
MaxDim == 2
MaxPad == 1

\* ------------------------------------------------- program constants
DefaultThrottleTime == 90
ManagerThrottleTime == 90

\* -------------------------------------------------------- value sets
Elements == {"E", "F"}
Window == "W"
Targets == Elements \cup {Window}
Dims == 1..MaxDim
ResizeEvent == [width : Dims, height : Dims]
\* no value: an unset distinctUntilChanged key, an empty debounce slot
Absent == [width |-> -1, height |-> -1]
\* the value mapTo(false) puts on the stream merged into resizeStart
FalseItem == [width |-> -2, height |-> -2]
\* throttle intervals handed to the constructor and to throttleBy
\* an interval short enough for its timers to fire within the horizon
ShortTime == MaxTime \div 2
CtorTimes == {ShortTime, DefaultThrottleTime}
ThrottleArgs == {-1, 0, ShortTime}
MutationTypes == {"attributes", "characterData", "childList"}

VARIABLES
  OBSERVER_CACHE,  \* target -> base stream (0: no entry)
  streams,         \* the base streams the factories built, in creation order
  roObserved,      \* element -> number of RESIZE_OBSERVER.observe calls
  moObserved,      \* element -> number of MUTATION_OBSERVER.observe calls
  factoryRuns,     \* target -> number of factory invocations
  observers,       \* the GTResizeObserver instances, in creation order
  manager,         \* ResizeManager._buffer: target -> observer (0: no entry)
  lastObserve,     \* the last ResizeManager.observe call and what it returned
  subs,            \* the subscriptions made so far
  now,             \* the clock, in ms
  content,         \* element -> content-box size
  pad,             \* element -> padding + border added by offsetWidth/Height
  inner,           \* the viewport's innerWidth/innerHeight
  chg,             \* element -> what happened since its last size change
  nEvents          \* native events delivered so far

vars == <<OBSERVER_CACHE, streams, roObserved, moObserved, factoryRuns,
          observers, manager, lastObserve, subs, now, content, pad, inner, chg,
          nEvents>>

\* ------------------------------------------------------------ layout
offset(e) == [width |-> content[e].width + pad[e],
              height |-> content[e].height + pad[e]]

\* ------------------------------------------------ the observer cache
World == [cache |-> OBSERVER_CACHE, streams |-> streams, ro |-> roObserved,
          mo |-> moObserved, fc |-> factoryRuns]

NewStream(target) ==
  [target |-> target, key |-> Absent, live |-> FALSE,
   n |-> 0, lastV |-> Absent, lastT |-> 0]

\* the factory of windowResizeEventProvider: fromEvent + map + share
windowFactory(w, target) ==
  [w |-> [w EXCEPT !.streams = Append(@, NewStream(target)),
                   !.fc[target] = @ + 1],
   ret |-> Len(w.streams) + 1]

\* the factory of domElementResizeEventProvider: both native registrations,
\* then the filter/map/merge/distinctUntilChanged/share pipeline
domElementFactory(w, target) ==
  [w |-> [w EXCEPT !.ro[target] = @ + 1,
                   !.mo[target] = @ + 1,
                   !.streams = Append(@, NewStream(target)),
                   !.fc[target] = @ + 1],
   ret |-> Len(w.streams) + 1]

factory(w, target) ==
  IF target = Window THEN windowFactory(w, target)
  ELSE domElementFactory(w, target)

resizeEventProviderNoCache(w, target) ==
  LET f == factory(w, target)
  IN  [w |-> [f.w EXCEPT !.cache[target] = f.ret], ret |-> f.ret]

resizeEventProvider(w, target) ==
  IF w.cache[target] # 0
  THEN [w |-> w, ret |-> w.cache[target]]
  ELSE LET f == factory(w, target)
       IN  [w |-> [f.w EXCEPT !.cache[target] = f.ret], ret |-> f.ret]

\* new GTResizeObserver(target, throttleTime)
GTResizeObserver(w, target, throttleTime) ==
  LET p == resizeEventProvider(w, target)
  IN  [w |-> p.w,
       ret |-> [target |-> target, throttleTime |-> throttleTime,
                provider |-> p.ret, buffer |-> <<>>, made |-> 0]]

\* no call of ResizeManager.observe yet
NoCall == [target |-> "none", throttleTime |-> 0, built |-> FALSE, ret |-> 0]

SetWorld(w) ==
  /\ OBSERVER_CACHE' = w.cache
  /\ streams' = w.streams
  /\ roObserved' = w.ro
  /\ moObserved' = w.mo
  /\ factoryRuns' = w.fc

Init ==
  /\ OBSERVER_CACHE = [t \in Targets |-> 0]
  /\ streams = <<>>
  /\ roObserved = [e \in Elements |-> 0]
  /\ moObserved = [e \in Elements |-> 0]
  /\ factoryRuns = [t \in Targets |-> 0]
  /\ observers = <<>>
  /\ manager = [t \in Targets |-> 0]
  /\ lastObserve = NoCall
  /\ subs = <<>>
  /\ now = 0
  /\ content = [e \in Elements |-> [width |-> 1, height |-> 1]]
  /\ pad \in [Elements -> 0..MaxPad]
  /\ inner = [width |-> 1, height |-> 1]
  /\ chg = [e \in Elements |-> [ok |-> FALSE, g |-> FALSE, m |-> FALSE, n |-> 0]]
  /\ nEvents = 0

\* ------------------------------------------------ observer accessors
ProviderRef == [kind |-> "provider", time |-> 0, pipe |-> 0]

\* throttleBy testing time < 0: throttleBy(0) builds and caches a pipeline
throttleByNegativeOnly(o, time) ==
  IF time < 0
  THEN [obs |-> o, ret |-> ProviderRef]
  ELSE IF time \notin DOMAIN o.buffer
       THEN [obs |-> [o EXCEPT !.buffer = (time :> (o.made + 1)) @@ @,
                               !.made = @ + 1],
             ret |-> [kind |-> "throttle", time |-> time, pipe |-> o.made + 1]]
       ELSE [obs |-> o,
             ret |-> [kind |-> "throttle", time |-> time, pipe |-> o.buffer[time]]]

\* throttleBy without the `time in this._buffer` test
throttleByNoCache(o, time) ==
  IF time <= 0
  THEN [obs |-> o, ret |-> ProviderRef]
  ELSE [obs |-> [o EXCEPT !.buffer = (time :> (o.made + 1)) @@ @,
                          !.made = @ + 1],
        ret |-> [kind |-> "throttle", time |-> time, pipe |-> o.made + 1]]

\* GTResizeObserver.throttleBy: the observer after the call, and the stream returned
throttleBy(o, time) ==
  IF time <= 0
  THEN [obs |-> o, ret |-> ProviderRef]
  ELSE IF time \notin DOMAIN o.buffer
       THEN [obs |-> [o EXCEPT !.buffer = (time :> (o.made + 1)) @@ @,
                               !.made = @ + 1],
             ret |-> [kind |-> "throttle", time |-> time, pipe |-> o.made + 1]]
       ELSE [obs |-> o,
             ret |-> [kind |-> "throttle", time |-> time, pipe |-> o.buffer[time]]]

\* GTResizeObserver.resize
resize(o) == throttleBy(o, o.throttleTime)

\* GTResizeObserver.resizeEnd: a fresh debounceTime(throttleTime) pipeline
resizeEnd(o) ==
  [obs |-> o, ret |-> [kind |-> "end", time |-> o.throttleTime, pipe |-> 0]]

\* GTResizeObserver.resizeStart: the provider merged with a resizeEnd of its own
resizeStart(o) ==
  [obs |-> o, ret |-> [kind |-> "start", time |-> resizeEnd(o).ret.time, pipe |-> 0]]

isTruthy(v) == v # FalseItem /\ v # Absent

bothTruthy(val1, val2) == isTruthy(val1) /\ isTruthy(val2)

\* ------------------------------------------------------ stream state
StreamOf(i) == observers[subs[i].obs].provider

\* share(): the pipeline above it is subscribed while a subscriber is present
Connected(s) ==
  \E i \in DOMAIN subs : subs[i].active /\ StreamOf(i) = s

\* the base stream is idle for observer o: no emission in the last throttleTime ms
Idle(o) ==
  LET st == streams[o.provider]
  IN  st.n = 0 \/ now - st.lastT > o.throttleTime

NewSub(oi, via, arg, ref) ==
  [obs |-> oi, via |-> via, arg |-> arg, kind |-> ref.kind, time |-> ref.time,
   pipe |-> ref.pipe, active |-> TRUE, idle |-> Idle(observers[oi]),
   n0 |-> streams[observers[oi].provider].n,
   throttled |-> 0, debT |-> 0, debV |-> Absent, key |-> Absent,
   cnt |-> 0, lastV |-> Absent, lastT |-> 0, seq |-> 0]

\* the subscriber's next(v) is called
Emit(r, v, seq) ==
  [r EXCEPT !.cnt = @ + 1, !.lastV = v, !.lastT = now, !.seq = seq]

\* throttleTime configured {leading: false}: the value opens a window and is dropped
throttleTimeNextNoLeading(r, v, seq) ==
  IF r.throttled # 0 THEN r ELSE [r EXCEPT !.throttled = now + r.time]

\* throttleTime that never opens its window
throttleTimeNextNoWindow(r, v, seq) == Emit(r, v, seq)

\* throttleTime(time), leading edge only
throttleTimeNext(r, v, seq) ==
  IF r.throttled # 0 THEN r
  ELSE Emit([r EXCEPT !.throttled = now + r.time], v, seq)

\* debounceTime that keeps a running timer instead of restarting it
debounceTimeNextNoRestart(r, v) ==
  IF r.debT # 0 THEN [r EXCEPT !.debV = v]
  ELSE [r EXCEPT !.debV = v, !.debT = now + r.time]

\* debounceTime(time): keep the value, restart the timer
debounceTimeNext(r, v) == [r EXCEPT !.debV = v, !.debT = now + r.time]

\* distinctUntilChanged(bothTruthy) then filter(isTruthy), on one merged item
startNext(r, item, seq) ==
  IF r.key # Absent /\ bothTruthy(r.key, item) THEN r
  ELSE LET k == [r EXCEPT !.key = item]
       IN  IF isTruthy(item) THEN Emit(k, item, seq) ELSE k

\* one base emission v reaches subscription r
OnNext(r, v, seq) ==
  CASE r.kind = "provider" -> Emit(r, v, seq)
    [] r.kind = "throttle" -> throttleTimeNext(r, v, seq)
    [] r.kind = "end" -> debounceTimeNext(r, v)
    [] r.kind = "start" -> debounceTimeNext(startNext(r, v, seq), v)

\* a comparer that forgets the height
SameWidthOnly(prev, next) == prev.width = next.width

\* the comparer of the element pipeline's distinctUntilChanged
Same(prev, next) == prev.width = next.width /\ prev.height = next.height

\* distinctUntilChanged applied to the viewport pipeline too
PassesDistinctEverywhere(st, v) ==
  \/ st.lastV = Absent
  \/ ~Same(st.lastV, v)

\* distinctUntilChanged on the element pipeline; the viewport pipeline has none
Passes(st, v) ==
  \/ st.target = Window
  \/ st.key = Absent
  \/ ~Same(st.key, v)

Emits(cand, s) == cand[s] # Absent /\ Connected(s) /\ Passes(streams[s], cand[s])

\* what happened to element e since its last size change
Untracked == [ok |-> FALSE, g |-> FALSE, m |-> FALSE, n |-> 0]

Fresh(e) ==
  LET s == OBSERVER_CACHE[e]
  IN  /\ s # 0
      /\ Connected(s)
      /\ streams[s].key = content[e] \/ streams[s].key = offset(e)

ChgNext(e, changed, g, m, emitted) ==
  LET base == IF changed THEN [Untracked EXCEPT !.ok = Fresh(e)] ELSE chg[e]
  IN  [base EXCEPT !.g = @ \/ g, !.m = @ \/ m,
                   !.n = IF emitted /\ @ < 2 THEN @ + 1 ELSE @]

CachedEmits(cand, e) == OBSERVER_CACHE[e] # 0 /\ Emits(cand, OBSERVER_CACHE[e])

\* every base stream takes its candidate value through its pipeline to its subscribers
Deliver(cand) ==
  /\ streams' = [s \in DOMAIN streams |->
       IF Emits(cand, s)
       THEN [streams[s] EXCEPT
               !.key = IF streams[s].target = Window THEN @ ELSE cand[s],
               !.live = TRUE, !.n = @ + 1, !.lastV = cand[s], !.lastT = now]
       ELSE streams[s]]
  /\ subs' = [i \in DOMAIN subs |->
       IF subs[i].active /\ Emits(cand, StreamOf(i))
       THEN OnNext(subs[i], cand[StreamOf(i)], streams[StreamOf(i)].n + 1)
       ELSE subs[i]]

\* ----------------------------------------------------------- actions
\* new GTResizeObserver(target, tt), called directly
New(target, tt) ==
  /\ Len(observers) < MaxObservers
  /\ LET c == GTResizeObserver(World, target, tt)
     IN  /\ SetWorld(c.w)
         /\ observers' = Append(observers, c.ret)
  /\ UNCHANGED <<manager, lastObserve, subs, now, content, pad, inner, chg,
                 nEvents>>

\* ResizeManager.observe without the has() test
observeAlways(target, throttleTime) ==
  /\ Len(observers) < MaxObservers
  /\ LET c == GTResizeObserver(World, target, throttleTime)
     IN  /\ SetWorld(c.w)
         /\ observers' = Append(observers, c.ret)
         /\ manager' = [manager EXCEPT ![target] = Len(observers) + 1]
         /\ lastObserve' = [target |-> target, throttleTime |-> throttleTime,
                            built |-> TRUE, ret |-> manager'[target]]

\* a ResizeManager.observe that hands a later throttleTime to the held observer
observeLatest(target, throttleTime) ==
  IF manager[target] = 0
  THEN /\ Len(observers) < MaxObservers
       /\ LET c == GTResizeObserver(World, target, throttleTime)
          IN  /\ SetWorld(c.w)
              /\ observers' = Append(observers, c.ret)
              /\ manager' = [manager EXCEPT ![target] = Len(observers) + 1]
              /\ lastObserve' = [target |-> target, throttleTime |-> throttleTime,
                                 built |-> TRUE, ret |-> manager'[target]]
  ELSE /\ lastObserve' = [target |-> target, throttleTime |-> throttleTime,
                          built |-> FALSE, ret |-> manager[target]]
       /\ observers' = [observers EXCEPT
                          ![manager[target]].throttleTime = throttleTime]
       /\ UNCHANGED <<OBSERVER_CACHE, streams, roObserved, moObserved, factoryRuns,
                      manager>>

\* ResizeManager.observe(target, throttleTime)
observe(target, throttleTime) ==
  IF manager[target] = 0
  THEN /\ Len(observers) < MaxObservers
       /\ LET c == GTResizeObserver(World, target, throttleTime)
          IN  /\ SetWorld(c.w)
              /\ observers' = Append(observers, c.ret)
              /\ manager' = [manager EXCEPT ![target] = Len(observers) + 1]
              /\ lastObserve' = [target |-> target, throttleTime |-> throttleTime,
                                 built |-> TRUE, ret |-> manager'[target]]
  ELSE /\ lastObserve' = [target |-> target, throttleTime |-> throttleTime,
                          built |-> FALSE, ret |-> manager[target]]
       /\ UNCHANGED <<OBSERVER_CACHE, streams, roObserved, moObserved, factoryRuns,
                      observers, manager>>

Observe(target, throttleTime) ==
  /\ observe(target, throttleTime)
  /\ UNCHANGED <<subs, now, content, pad, inner, chg, nEvents>>

\* ResizeManager.root
Root ==
  /\ observe(Window, ManagerThrottleTime)
  /\ UNCHANGED <<subs, now, content, pad, inner, chg, nEvents>>

AddSub(oi, via, arg, call) ==
  /\ Len(subs) < MaxSubs
  /\ observers' = [observers EXCEPT ![oi] = call.obs]
  /\ subs' = Append(subs, NewSub(oi, via, arg, call.ret))
  /\ UNCHANGED <<OBSERVER_CACHE, streams, roObserved, moObserved, factoryRuns,
                 manager, lastObserve, now, content, pad, inner, chg, nEvents>>

\* observer.resize.subscribe(...)
SubscribeResize(oi) ==
  AddSub(oi, "resize", observers[oi].throttleTime, resize(observers[oi]))

\* observer.throttleBy(time).subscribe(...)
SubscribeThrottleBy(oi, time) ==
  AddSub(oi, "throttleBy", time, throttleBy(observers[oi], time))

\* observer.resizeStart.subscribe(...)
SubscribeResizeStart(oi) ==
  AddSub(oi, "resizeStart", observers[oi].throttleTime, resizeStart(observers[oi]))

\* observer.resizeEnd.subscribe(...)
SubscribeResizeEnd(oi) ==
  AddSub(oi, "resizeEnd", observers[oi].throttleTime, resizeEnd(observers[oi]))

\* an unsubscribe that ends every subscription of the same base stream
UnsubscribeAll(i) ==
  /\ subs[i].active
  /\ LET s == StreamOf(i)
     IN  /\ subs' = [j \in DOMAIN subs |->
                       IF StreamOf(j) = s
                       THEN [subs[j] EXCEPT !.active = FALSE, !.throttled = 0,
                                            !.debT = 0, !.debV = Absent,
                                            !.key = Absent]
                       ELSE subs[j]]
         /\ streams' = [streams EXCEPT ![s].key = Absent, ![s].live = FALSE]
         /\ chg' = [e \in Elements |->
                      IF OBSERVER_CACHE[e] = s THEN Untracked ELSE chg[e]]
  /\ UNCHANGED <<OBSERVER_CACHE, roObserved, moObserved, factoryRuns, observers,
                 manager, lastObserve, now, content, pad, inner, nEvents>>

\* an unsubscribe after which the pipeline above share() stays subscribed
UnsubscribeKeepsKey(i) ==
  /\ subs[i].active
  /\ subs' = [subs EXCEPT ![i] = [@ EXCEPT !.active = FALSE, !.throttled = 0,
                                           !.debT = 0, !.debV = Absent,
                                           !.key = Absent]]
  /\ UNCHANGED <<OBSERVER_CACHE, streams, roObserved, moObserved, factoryRuns,
                 observers, manager, lastObserve, now, content, pad, inner, chg,
                 nEvents>>

\* subscription.unsubscribe(): its timers are cancelled; the last subscriber
\* leaving a shared stream tears its pipeline down, distinctUntilChanged key included
Unsubscribe(i) ==
  /\ subs[i].active
  /\ subs' = [subs EXCEPT ![i] = [@ EXCEPT !.active = FALSE, !.throttled = 0,
                                           !.debT = 0, !.debV = Absent,
                                           !.key = Absent]]
  /\ LET s == StreamOf(i)
         gone == \A j \in DOMAIN subs : j # i /\ subs[j].active => StreamOf(j) # s
     IN  /\ streams' = [streams EXCEPT ![s].key = IF gone THEN Absent ELSE @,
                                       ![s].live = IF gone THEN FALSE ELSE @]
         /\ chg' = [e \in Elements |->
                      IF gone /\ OBSERVER_CACHE[e] = s THEN Untracked ELSE chg[e]]
  /\ UNCHANGED <<OBSERVER_CACHE, roObserved, moObserved, factoryRuns, observers,
                 manager, lastObserve, now, content, pad, inner, nEvents>>

\* the element's content box changes and nothing is reported yet
Layout(e, v) ==
  /\ nEvents < MaxEvents
  /\ v # content[e]
  /\ content' = [content EXCEPT ![e] = v]
  /\ chg' = [chg EXCEPT ![e] = ChgNext(e, TRUE, FALSE, FALSE, FALSE)]
  /\ nEvents' = nEvents + 1
  /\ UNCHANGED <<OBSERVER_CACHE, streams, roObserved, moObserved, factoryRuns,
                 observers, manager, lastObserve, subs, now, pad, inner>>

\* RESIZE_OBSERVER's callback when the pipelines do not filter on the target
GeometryRecordUnfiltered(e, v) ==
  /\ nEvents < MaxEvents
  /\ roObserved[e] > 0
  /\ LET cand == [s \in DOMAIN streams |->
                    IF streams[s].target \in Elements
                    THEN [width |-> v.width, height |-> v.height]
                    ELSE Absent]
     IN  /\ Deliver(cand)
         /\ chg' = [chg EXCEPT ![e] =
                      ChgNext(e, v # content[e], TRUE, FALSE, CachedEmits(cand, e))]
  /\ content' = [content EXCEPT ![e] = v]
  /\ nEvents' = nEvents + 1
  /\ UNCHANGED <<OBSERVER_CACHE, roObserved, moObserved, factoryRuns, observers,
                 manager, lastObserve, now, pad, inner>>

\* RESIZE_OBSERVER's callback with one entry {target: e, contentRect: v}
GeometryRecord(e, v) ==
  /\ nEvents < MaxEvents
  /\ roObserved[e] > 0
  /\ LET cand == [s \in DOMAIN streams |->
                    IF streams[s].target = e
                    THEN [width |-> v.width, height |-> v.height]
                    ELSE Absent]
     IN  /\ Deliver(cand)
         /\ chg' = [chg EXCEPT ![e] =
                      ChgNext(e, v # content[e], TRUE, FALSE, CachedEmits(cand, e))]
  /\ content' = [content EXCEPT ![e] = v]
  /\ nEvents' = nEvents + 1
  /\ UNCHANGED <<OBSERVER_CACHE, roObserved, moObserved, factoryRuns, observers,
                 manager, lastObserve, now, pad, inner>>

\* MUTATION_OBSERVER's callback when the pipeline lets every record type through
MutationRecordAnyType(t, type) ==
  /\ nEvents < MaxEvents
  /\ moObserved[t] > 0
  /\ LET cand == [s \in DOMAIN streams |->
                    IF streams[s].target \in Elements
                    THEN offset(streams[s].target)
                    ELSE Absent]
     IN  /\ Deliver(cand)
         /\ chg' = [e \in Elements |->
                      ChgNext(e, FALSE, FALSE, e = t /\ type # "attributes",
                              CachedEmits(cand, e))]
  /\ nEvents' = nEvents + 1
  /\ UNCHANGED <<OBSERVER_CACHE, roObserved, moObserved, factoryRuns, observers,
                 manager, lastObserve, now, content, pad, inner>>

\* MUTATION_OBSERVER's callback with one record {type, target: t}
MutationRecord(t, type) ==
  /\ nEvents < MaxEvents
  /\ moObserved[t] > 0
  /\ LET cand == [s \in DOMAIN streams |->
                    IF streams[s].target \in Elements /\ type # "attributes"
                    THEN offset(streams[s].target)
                    ELSE Absent]
     IN  /\ Deliver(cand)
         /\ chg' = [e \in Elements |->
                      ChgNext(e, FALSE, FALSE, e = t /\ type # "attributes",
                              CachedEmits(cand, e))]
  /\ nEvents' = nEvents + 1
  /\ UNCHANGED <<OBSERVER_CACHE, roObserved, moObserved, factoryRuns, observers,
                 manager, lastObserve, now, content, pad, inner>>

\* the viewport's native "resize" event, its inner dimensions being v
WindowResize(v) ==
  /\ nEvents < MaxEvents
  /\ inner' = v
  /\ Deliver([s \in DOMAIN streams |->
                IF streams[s].target = Window
                THEN [width |-> inner'.width, height |-> inner'.height]
                ELSE Absent])
  /\ nEvents' = nEvents + 1
  /\ UNCHANGED <<OBSERVER_CACHE, roObserved, moObserved, factoryRuns, observers,
                 manager, lastObserve, now, content, pad, chg>>

\* the timer of throttleTime fires: the window closes
ThrottleExpire(i) ==
  /\ subs[i].active
  /\ subs[i].throttled # 0
  /\ subs[i].throttled <= now
  /\ subs' = [subs EXCEPT ![i].throttled = 0]
  /\ UNCHANGED <<OBSERVER_CACHE, streams, roObserved, moObserved, factoryRuns,
                 observers, manager, lastObserve, now, content, pad, inner, chg, nEvents>>

\* debounceTime whose timer keeps running after it fired
debouncedNextRepeats(r, seq) ==
  IF r.kind = "end" THEN Emit([r EXCEPT !.debT = now + r.time], r.debV, seq)
  ELSE startNext([r EXCEPT !.debT = 0, !.debV = Absent], FalseItem, seq)

\* the timer of debounceTime fires: resizeEnd emits the kept value; inside
\* resizeStart it arrives as false
debouncedNext(r, seq) ==
  LET d == [r EXCEPT !.debT = 0, !.debV = Absent]
  IN  IF r.kind = "end" THEN Emit(d, r.debV, seq)
      ELSE startNext(d, FalseItem, seq)

DebounceFire(i) ==
  /\ subs[i].active
  /\ subs[i].debT # 0
  /\ subs[i].debT <= now
  /\ subs' = [subs EXCEPT ![i] = debouncedNext(@, streams[StreamOf(i)].n)]
  /\ UNCHANGED <<OBSERVER_CACHE, streams, roObserved, moObserved, factoryRuns,
                 observers, manager, lastObserve, now, content, pad, inner, chg, nEvents>>

\* one millisecond passes; a due timer runs when the event loop gets to it,
\* which may be any time later
Tick ==
  /\ now < MaxTime
  /\ now' = now + 1
  /\ UNCHANGED <<OBSERVER_CACHE, streams, roObserved, moObserved, factoryRuns,
                 observers, manager, lastObserve, subs, content, pad, inner, chg, nEvents>>

\* ---------------------------------------------------- specifications
Accessors == {"resize", "throttleBy", "resizeStart", "resizeEnd"}

\* sizes whose width and height are equal
Squares == {v \in ResizeEvent : v.width = v.height}

\* sizes at least as high as wide
Upright == {v \in ResizeEvent : v.width <= v.height}

InitOn(T) == Init /\ \A e \in Elements \ T : pad[e] = 0

\* every target, every operation
Next ==
  \/ \E t \in Targets, tt \in CtorTimes : New(t, tt)
  \/ \E t \in Targets, tt \in CtorTimes : Observe(t, tt)
  \/ Root
  \/ \E oi \in DOMAIN observers : SubscribeResize(oi)
  \/ \E oi \in DOMAIN observers, time \in ThrottleArgs : SubscribeThrottleBy(oi, time)
  \/ \E oi \in DOMAIN observers : SubscribeResizeStart(oi)
  \/ \E oi \in DOMAIN observers : SubscribeResizeEnd(oi)
  \/ \E i \in DOMAIN subs : Unsubscribe(i)
  \/ \E e \in Elements, v \in ResizeEvent : Layout(e, v)
  \/ \E e \in Elements, v \in ResizeEvent : GeometryRecord(e, v)
  \/ \E t \in Elements, type \in MutationTypes : MutationRecord(t, type)
  \/ \E v \in ResizeEvent : WindowResize(v)
  \/ \E i \in DOMAIN subs : ThrottleExpire(i)
  \/ \E i \in DOMAIN subs : DebounceFire(i)
  \/ Tick

Spec == Init /\ [][Next]_vars

\* constructions alone: direct and through the manager, on every target
NextCache ==
  \/ \E t \in Targets, tt \in CtorTimes : New(t, tt)
  \/ \E t \in Targets, tt \in CtorTimes : Observe(t, tt)
  \/ Root

SpecCache == Init /\ [][NextCache]_vars

\* one observer of one element, read through throttleBy(-1) and throttleBy(0)
NextRaw ==
  \/ observers = <<>> /\ New("E", ShortTime)
  \/ \E oi \in DOMAIN observers, time \in {-1, 0} : SubscribeThrottleBy(oi, time)
  \/ \E v \in ResizeEvent : GeometryRecord("E", v)
  \/ \E type \in MutationTypes : MutationRecord("E", type)

SpecRaw == InitOn({"E"}) /\ [][NextRaw]_vars

\* the base stream of one element, its subscribers coming and going
NextBase ==
  \/ observers = <<>> /\ New("E", ShortTime)
  \/ \E oi \in DOMAIN observers : SubscribeThrottleBy(oi, 0)
  \/ \E i \in DOMAIN subs : Unsubscribe(i)
  \/ \E v \in Upright : GeometryRecord("E", v)
  \/ \E type \in MutationTypes : MutationRecord("E", type)

SpecBase == InitOn({"E"}) /\ [][NextBase]_vars

\* size changes of one element, reported by geometry and by mutation records
NextChange ==
  \/ observers = <<>> /\ New("E", ShortTime)
  \/ \E oi \in DOMAIN observers : SubscribeThrottleBy(oi, 0)
  \/ \E v \in ResizeEvent : Layout("E", v)
  \/ \E v \in ResizeEvent : GeometryRecord("E", v)
  \/ \E type \in MutationTypes : MutationRecord("E", type)

SpecChange == InitOn({"E"}) /\ [][NextChange]_vars

\* the base stream of the viewport, beside one observed element
NextViewport ==
  \/ \E t \in {"E", Window} :
       subs = <<>> /\ OBSERVER_CACHE[t] = 0 /\ New(t, ShortTime)
  \/ \E oi \in DOMAIN observers : SubscribeThrottleBy(oi, 0)
  \/ \E v \in ResizeEvent : GeometryRecord("E", v)
  \/ \E type \in MutationTypes : MutationRecord("E", type)
  \/ \E v \in ResizeEvent : WindowResize(v)

SpecViewport == InitOn({}) /\ [][NextViewport]_vars

\* one element observed through several handles, each read by one subscriber of
\* its `resize` stream, with the clock running
NextHandles ==
  \/ subs = <<>> /\ New("E", ShortTime)
  \/ \E oi \in DOMAIN observers : oi = Len(subs) + 1 /\ SubscribeResize(oi)
  \/ \E v \in Squares : GeometryRecord("E", v)
  \/ \E i \in DOMAIN subs : ThrottleExpire(i)
  \/ Tick

SpecHandles == InitOn({}) /\ [][NextHandles]_vars

\* one observer read by up to two subscriptions of one throttled stream, resize
\* or throttleBy(1), with the clock running
SameHandle(via) == Len(subs) < 2 /\ \A i \in DOMAIN subs : subs[i].via = via

NextThrottle ==
  \/ observers = <<>> /\ New("E", ShortTime)
  \/ \E oi \in DOMAIN observers : SameHandle("resize") /\ SubscribeResize(oi)
  \/ \E oi \in DOMAIN observers :
       SameHandle("throttleBy") /\ SubscribeThrottleBy(oi, 1)
  \/ \E v \in Squares : GeometryRecord("E", v)
  \/ \E i \in DOMAIN subs : ThrottleExpire(i)
  \/ Tick

SpecThrottle == InitOn({}) /\ [][NextThrottle]_vars

\* one observer read through resizeStart and resizeEnd, with the clock running
NextEdges ==
  \/ observers = <<>> /\ New("E", ShortTime)
  \/ \E oi \in DOMAIN observers : SubscribeResizeStart(oi)
  \/ \E oi \in DOMAIN observers : SubscribeResizeEnd(oi)
  \/ \E v \in Squares : GeometryRecord("E", v)
  \/ \E i \in DOMAIN subs : DebounceFire(i)
  \/ Tick

SpecEdges == InitOn({}) /\ [][NextEdges]_vars

\* one observer read through derived streams, one subscription for each,
\* subscribed before the first record in the order of Accessors, with the clock
\* running
AccessorRank(via) ==
  CASE via = "resize" -> 1
    [] via = "throttleBy" -> 2
    [] via = "resizeStart" -> 3
    [] via = "resizeEnd" -> 4

MayAdd(via) ==
  /\ nEvents = 0
  /\ \A i \in DOMAIN subs : AccessorRank(subs[i].via) < AccessorRank(via)

NextDerived ==
  \/ observers = <<>> /\ New("E", ShortTime)
  \/ \E oi \in DOMAIN observers : MayAdd("resize") /\ SubscribeResize(oi)
  \/ \E oi \in DOMAIN observers : MayAdd("throttleBy") /\ SubscribeThrottleBy(oi, 1)
  \/ \E oi \in DOMAIN observers : MayAdd("resizeStart") /\ SubscribeResizeStart(oi)
  \/ \E oi \in DOMAIN observers : MayAdd("resizeEnd") /\ SubscribeResizeEnd(oi)
  \/ \E v \in Squares : GeometryRecord("E", v)
  \/ \E i \in DOMAIN subs : ThrottleExpire(i)
  \/ \E i \in DOMAIN subs : DebounceFire(i)
  \/ Tick

SpecDerived == InitOn({}) /\ [][NextDerived]_vars

\* one observer whose subscribers of resize and of the base stream come and go
\* within one throttle interval
NextCancel ==
  \/ observers = <<>> /\ New("E", ShortTime)
  \/ \E oi \in DOMAIN observers : SubscribeResize(oi)
  \/ \E oi \in DOMAIN observers : SubscribeThrottleBy(oi, 0)
  \/ \E i \in DOMAIN subs : Unsubscribe(i)
  \/ \E v \in Squares : GeometryRecord("E", v)

SpecCancel == InitOn({}) /\ [][NextCancel]_vars

\* two observed elements, each read unthrottled
NextPair ==
  \/ \E t \in Elements : subs = <<>> /\ OBSERVER_CACHE[t] = 0 /\ New(t, ShortTime)
  \/ \E oi \in DOMAIN observers : SubscribeThrottleBy(oi, 0)
  \/ \E e \in Elements, v \in Squares : GeometryRecord(e, v)
  \/ \E t \in Elements, type \in MutationTypes : MutationRecord(t, type)

SpecPair == InitOn({"E"}) /\ [][NextPair]_vars

\* observers of one element read through resize and throttleBy, no record arriving
NextBuffer ==
  \/ \E tt \in CtorTimes : New("E", tt)
  \/ \E oi \in DOMAIN observers : SubscribeResize(oi)
  \/ \E oi \in DOMAIN observers, time \in ThrottleArgs \cup CtorTimes :
       SubscribeThrottleBy(oi, time)

SpecBuffer == InitOn({}) /\ [][NextBuffer]_vars

\* one element observed through the manager, repeatedly and with either throttle
\* time, and read through resize by up to two subscriptions made before the
\* first record
NextManager ==
  \/ \E tt \in CtorTimes : Observe("E", tt)
  \/ \E oi \in DOMAIN observers :
       nEvents = 0 /\ Len(subs) < 2 /\ SubscribeResize(oi)
  \/ \E v \in Squares : GeometryRecord("E", v)
  \/ \E i \in DOMAIN subs : ThrottleExpire(i)
  \/ Tick

SpecManager == InitOn({"E"}) /\ [][NextManager]_vars

\* bursts seen by one resizeStart and one resizeEnd subscription made before the
\* first record, on an observer of either short throttle time
NextBurst ==
  \/ \E tt \in {1, ShortTime} : observers = <<>> /\ New("E", tt)
  \/ \E oi \in DOMAIN observers : Len(subs) = 0 /\ SubscribeResizeStart(oi)
  \/ \E oi \in DOMAIN observers :
       Len(subs) = 1 /\ nEvents = 0 /\ SubscribeResizeEnd(oi)
  \/ \E v \in Squares : GeometryRecord("E", v)
  \/ \E i \in DOMAIN subs : DebounceFire(i)
  \/ Tick

SpecBurst == InitOn({}) /\ [][NextBurst]_vars

\* ------------------------------------------------------------ claims
ObserversOf(t) == {i \in DOMAIN observers : observers[i].target = t}

\* C1: however many observers are constructed, directly or through the manager,
\* each observed element was registered exactly once with the geometry observer
\* and at most once with the mutation observer, the factory of each target ran at
\* most once, and all observers of a target hold the one cached base stream.
C1_SingleRegistration ==
  \A t \in Targets :
    LET seen == IF ObserversOf(t) = {} THEN 0 ELSE 1
    IN  /\ factoryRuns[t] = seen
        /\ t \in Elements => roObserved[t] = seen /\ moObserved[t] <= 1
        /\ \A i \in ObserversOf(t) : observers[i].provider = OBSERVER_CACHE[t]
        /\ \A i, j \in ObserversOf(t) : observers[i].provider = observers[j].provider

C1_Witness ==
  \E i, j \in ObserversOf("E") :
    /\ i # j
    /\ manager["E"] = j
    /\ roObserved["E"] = 1

\* the base stream s would emit v now: its pipeline holds no previous pair, or a different one
Change(s, v) == ~streams[s].live \/ streams[s].lastV # v

BaseEmits(s) == streams'[s].n = streams[s].n + 1

Received(i) == subs'[i].cnt = subs[i].cnt + 1

ReceivedNow(i, v) ==
  /\ Received(i)
  /\ subs'[i].lastV = v
  /\ subs'[i].lastT = now

Missed(i) == subs'[i].cnt = subs[i].cnt

\* C2: a geometry record for an element reaches every subscriber of a `resize`
\* stream of that element at most once, whichever handle the subscriber used; it
\* reaches it exactly once, with the record's size, when the record is a change
\* and the subscriber's throttle window is not open (so the first record after
\* the handles were observed and subscribed reaches every one of them once).
C2_OneEmissionPerHandle ==
  [][\A e \in Elements :
       LET v == content'[e]
       IN  GeometryRecord(e, v) =>
             \A i \in DOMAIN subs :
               (subs[i].active /\ subs[i].via = "resize"
                  /\ observers[subs[i].obs].target = e) =>
                 /\ Received(i) \/ Missed(i)
                 /\ (Change(StreamOf(i), v) /\ subs[i].throttled = 0) =>
                      ReceivedNow(i, v)
                 /\ ~Change(StreamOf(i), v) => Missed(i)]_vars

C2_Witness ==
  \E i, j \in DOMAIN subs :
    /\ subs[i].obs # subs[j].obs
    /\ \A k \in {i, j} : /\ subs[k].via = "resize"
                         /\ subs[k].active
                         /\ subs[k].cnt = 1
                         /\ subs[k].lastT = now
    /\ streams[StreamOf(i)].n = 1
    /\ nEvents = 1

\* C5: two consecutive emissions of a throttleBy(T) subscription, T > 0, are at
\* least T ms apart; a base emission is delivered at once and unchanged when the
\* subscription's window is closed, and is dropped when it is open; the
\* subscription never emits at another moment than a base emission.
C5_LeadingEdgeThrottle ==
  [][\A i \in DOMAIN subs :
       (subs[i].active /\ subs[i].kind = "throttle" /\ subs[i].time > 0) =>
         LET s == StreamOf(i)
         IN  /\ (Received(i) /\ subs[i].cnt > 0) => now - subs[i].lastT >= subs[i].time
             /\ (BaseEmits(s) /\ subs[i].throttled = 0) =>
                  ReceivedNow(i, streams'[s].lastV)
             /\ (BaseEmits(s) /\ subs[i].throttled # 0) => Missed(i)
             /\ ~BaseEmits(s) => Missed(i)]_vars

C5_Witness ==
  \E i \in DOMAIN subs :
    /\ subs[i].kind = "throttle"
    /\ subs[i].active
    /\ subs[i].cnt = 2
    /\ subs[i].lastT = now
    /\ streams[StreamOf(i)].n = 3

\* C6: two subscriptions of throttleBy(T) on one observer, both in place, receive
\* the same emissions at every step.
C6_SharedThrottleEmitsIdentically ==
  [][\A i, j \in DOMAIN subs :
       (/\ subs[i].active /\ subs[j].active
        /\ subs[i].obs = subs[j].obs
        /\ subs[i].kind = "throttle" /\ subs[j].kind = "throttle"
        /\ subs[i].time = subs[j].time) =>
         (Received(i) <=> Received(j))]_vars

ElementStreams == {s \in DOMAIN streams : streams[s].target \in Elements}

\* C3 as stated: two consecutive emissions of an element's base stream never
\* carry the same (width, height) pair.
C3_ConsecutiveEmissionsDiffer ==
  [][\A s \in ElementStreams :
       (BaseEmits(s) /\ streams[s].n > 0) =>
         streams'[s].lastV # streams[s].lastV]_vars

\* C3 amended: while the base stream has had a subscriber without interruption
\* since its previous emission, the next emission carries a different pair; and
\* with a subscriber present a geometry record is emitted exactly when its pair
\* differs from the previous emission (two identical records in a row: one emission).
C3_DistinctWhileSubscribed ==
  [][\A s \in ElementStreams :
       /\ (BaseEmits(s) /\ streams[s].live) => streams'[s].lastV # streams[s].lastV
       /\ LET v == content'[streams[s].target]
          IN  (Connected(s) /\ GeometryRecord(streams[s].target, v)) =>
                /\ BaseEmits(s) <=> Change(s, v)
                /\ BaseEmits(s) => streams'[s].lastV = v]_vars

C3_Witness ==
  \E s \in ElementStreams :
    /\ streams[s].live
    /\ streams[s].n = 1
    /\ nEvents = 2
    /\ chg[streams[s].target].g
    /\ ~chg[streams[s].target].m
    /\ streams[s].lastV = content[streams[s].target]
    /\ \E i \in DOMAIN subs : subs[i].active /\ subs[i].cnt = 1 /\ subs[i].n0 = 0

\* C4: once a size change of an element has produced both its geometry record
\* and a non-attribute mutation record, in either order, the element's base
\* stream has emitted exactly once for that change.
C4_BothSourcesEmitOnce ==
  \A e \in Elements :
    (chg[e].ok /\ chg[e].g /\ chg[e].m) => chg[e].n = 1

\* C9: throttleBy(time) with time <= 0 hands back the base stream: such a
\* subscription receives every base emission, at once and unchanged, and nothing
\* else; and no observer's throttle sub-cache ever holds a key <= 0.
C9_NonPositiveIsBase ==
  /\ [](\A oi \in DOMAIN observers : \A t \in DOMAIN observers[oi].buffer : t > 0)
  /\ [](\A i \in DOMAIN subs :
          (subs[i].via = "throttleBy" /\ subs[i].arg <= 0) => subs[i].kind = "provider")
  /\ [][\A i \in DOMAIN subs :
          (subs[i].active /\ subs[i].via = "throttleBy" /\ subs[i].arg <= 0) =>
            /\ BaseEmits(StreamOf(i)) => ReceivedNow(i, streams'[StreamOf(i)].lastV)
            /\ ~BaseEmits(StreamOf(i)) => Missed(i)]_vars

C9_Witness ==
  \E i, j \in DOMAIN subs :
    /\ subs[i].arg = 0 /\ subs[j].arg = -1
    /\ \A k \in {i, j} : /\ subs[k].via = "throttleBy"
                         /\ subs[k].active
                         /\ subs[k].cnt = 2
                         /\ subs[k].lastT = now
    /\ streams[StreamOf(i)].n = 2
    /\ observers[subs[i].obs].buffer = <<>>

WindowStreams == {s \in DOMAIN streams : streams[s].target = Window}

OnStream(s) == {i \in DOMAIN subs : subs[i].active /\ StreamOf(i) = s}

\* C10: every native resize signal of the viewport is emitted once to each
\* subscriber of the viewport's base stream, carrying the inner width and height
\* of that moment, whether or not they changed; geometry and mutation records
\* never make the viewport's base stream emit.
C10_ViewportPassesEverySignal ==
  [][\A s \in WindowStreams :
       /\ (OnStream(s) # {} /\ WindowResize(inner')) =>
            /\ BaseEmits(s)
            /\ \A i \in OnStream(s) : ReceivedNow(i, inner')
       /\ (\/ \E e \in Elements : GeometryRecord(e, content'[e])
           \/ \E t \in Elements, type \in MutationTypes : MutationRecord(t, type)) =>
            /\ ~BaseEmits(s)
            /\ \A i \in OnStream(s) : Missed(i)]_vars

C10_Witness ==
  \E s \in WindowStreams : \E i \in OnStream(s) :
    /\ subs[i].cnt = 2
    /\ streams[s].n = 2
    /\ nEvents = 3
    /\ subs[i].lastV = inner
    /\ roObserved["E"] = 1
    /\ \E t \in ElementStreams : streams[t].n = 1

\* ms since the last emission of base stream s
Quiet(s) == now - streams[s].lastT

\* subscriptions of the given kind, made while the target was idle, still in place
IdleSubs(kind) ==
  {i \in DOMAIN subs : subs[i].active /\ subs[i].idle /\ subs[i].kind = kind}

C7_StartStep(i) ==
  LET s == StreamOf(i)
      first == streams[s].n = subs[i].n0 \/ Quiet(s) > subs[i].time
      inside == streams[s].n > subs[i].n0 /\ Quiet(s) < subs[i].time
  IN  /\ (BaseEmits(s) /\ first) => ReceivedNow(i, streams'[s].lastV)
      /\ (BaseEmits(s) /\ inside) => Missed(i)
      /\ ~BaseEmits(s) => Missed(i)

C7_EndStep(j) ==
  LET s == StreamOf(j)
  IN  Received(j) =>
        /\ ~BaseEmits(s)
        /\ streams[s].n > subs[j].n0
        /\ subs[j].seq < streams[s].n
        /\ Quiet(s) >= subs[j].time
        /\ subs'[j].lastV = streams[s].lastV

\* when a base emission follows a silence longer than throttleTime, resizeEnd
\* has emitted for the burst before it, with its last size
C7_EndBeforeNextBurst(j) ==
  LET s == StreamOf(j)
  IN  (BaseEmits(s) /\ streams[s].n > subs[j].n0 /\ Quiet(s) > subs[j].time) =>
        /\ subs[j].seq = streams[s].n
        /\ subs[j].lastV = streams[s].lastV

\* C7 as stated, a burst ending with the clock: for subscriptions of resizeStart
\* and resizeEnd made while the target is idle, resizeStart emits at the first
\* base emission of a burst, with its size, and at no later emission of the
\* burst; resizeEnd emits only throttleTime ms or more after the last base
\* emission, once per burst, with the last size; and a base emission that
\* follows a silence longer than throttleTime starts a new burst: resizeStart
\* emits it and resizeEnd has emitted for the burst before.
C7_OneStartOneEndPerBurst ==
  [][/\ \A i \in IdleSubs("start") : C7_StartStep(i)
     /\ \A j \in IdleSubs("end") :
          /\ C7_EndStep(j)
          /\ C7_EndBeforeNextBurst(j)]_vars

\* a resizeStart subscription between bursts: nothing received yet, or its
\* debounce timer has run since the last base emission
C7_Resting(r) == ~isTruthy(r.key)

C7_StartTimerStep(i) ==
  LET s == StreamOf(i)
  IN  /\ (BaseEmits(s) /\ C7_Resting(subs[i])) => ReceivedNow(i, streams'[s].lastV)
      /\ (BaseEmits(s) /\ ~C7_Resting(subs[i])) => Missed(i)
      /\ ~BaseEmits(s) => Missed(i)
      /\ (~C7_Resting(subs[i]) /\ C7_Resting(subs'[i])) =>
           /\ DebounceFire(i)
           /\ Quiet(s) >= subs[i].time

\* a resizeEnd subscription with no timer pending has emitted the last base emission
C7_EndSettled ==
  \A j \in IdleSubs("end") :
    LET s == StreamOf(j)
    IN  (streams[s].n > subs[j].n0 /\ subs[j].debT = 0) =>
          /\ subs[j].seq = streams[s].n
          /\ subs[j].lastV = streams[s].lastV

\* C7 amended, a burst ending with the debounce timers: for subscriptions of
\* resizeStart and resizeEnd made while the target is idle, resizeStart emits the
\* first base emission and then the first base emission after each run of its
\* debounce timer, and no other; resizeEnd emits only when its timer runs, once
\* per burst with the size of the last base emission; either timer runs
\* throttleTime ms or more after the last base emission, and a base emission
\* that arrives before it has run, however late, continues the burst.
C7_OneStartOneEndPerTimerRun ==
  /\ []C7_EndSettled
  /\ [][/\ \A i \in IdleSubs("start") : C7_StartTimerStep(i)
        /\ \A j \in IdleSubs("end") :
             /\ C7_EndStep(j)
             /\ Received(j) <=> DebounceFire(j)
             /\ (BaseEmits(StreamOf(j)) /\ subs[j].debT # 0) =>
                  (Missed(j) /\ subs'[j].debT = now + subs[j].time)]_vars

\* a burst of two base emissions, the second one later than throttleTime after
\* the first and before the timers ran, then one resizeEnd
C7_LateTimerWitness ==
  \E i \in IdleSubs("start"), j \in IdleSubs("end") :
    /\ subs[i].cnt = 1 /\ subs[j].cnt = 1
    /\ streams[StreamOf(i)].n = 2
    /\ subs[i].lastT = 0
    /\ streams[StreamOf(j)].lastT > subs[j].time
    /\ subs[j].lastV = streams[StreamOf(j)].lastV
    /\ subs[j].seq = 2

C7_Witness ==
  \E i \in IdleSubs("start"), j \in IdleSubs("end") :
    /\ subs[i].cnt = 1 /\ subs[j].cnt = 1
    /\ streams[StreamOf(i)].n = 2
    /\ subs[i].lastV # subs[j].lastV
    /\ subs[j].lastV = streams[StreamOf(j)].lastV
    /\ subs[i].lastT < streams[StreamOf(i)].lastT
    /\ Quiet(StreamOf(j)) > subs[j].time

\* C8: every resizeStart emission, of any subscription, happens at a base
\* emission that finds the target idle (no base emission before, or none for
\* throttleTime ms), and every resizeEnd emission happens throttleTime ms or more
\* after the last base emission.
C8_EdgesCoincideWithTransitions ==
  [][\A i \in DOMAIN subs :
       LET s == StreamOf(i)
       IN  /\ (subs[i].active /\ subs[i].kind = "start" /\ Received(i)) =>
                /\ BaseEmits(s)
                /\ streams[s].n = 0 \/ Quiet(s) >= subs[i].time
           /\ (subs[i].active /\ subs[i].kind = "end" /\ Received(i)) =>
                /\ streams[s].n > 0
                /\ Quiet(s) >= subs[i].time]_vars

\* ------------------------------------------------------ claims C11..C20

\* C11 as stated: a non-attribute mutation record for an element emits the
\* element's offset size exactly when it differs from the last pair the base
\* stream emitted, and an "attributes" record never emits.
C11_MutationEmitsOnDifference ==
  [][\A s \in ElementStreams : \A type \in MutationTypes :
       LET e == streams[s].target
       IN  (Connected(s) /\ MutationRecord(e, type)) =>
             IF type = "attributes" THEN ~BaseEmits(s)
             ELSE /\ BaseEmits(s) <=> (streams[s].n = 0 \/ offset(e) # streams[s].lastV)
                  /\ BaseEmits(s) => streams'[s].lastV = offset(e)]_vars

\* C11 amended: the pair is compared with the last pair emitted since the base
\* stream last gained its first subscriber; the first record after that is
\* emitted whatever was emitted before.
C11_MutationEmitsOnChange ==
  [][\A s \in ElementStreams : \A type \in MutationTypes :
       LET e == streams[s].target
       IN  (Connected(s) /\ MutationRecord(e, type)) =>
             IF type = "attributes" THEN ~BaseEmits(s)
             ELSE /\ BaseEmits(s) <=> Change(s, offset(e))
                  /\ BaseEmits(s) => streams'[s].lastV = offset(e)
                  /\ BaseEmits(s) => \A i \in OnStream(s) : ReceivedNow(i, offset(e))]_vars

C11_Witness ==
  \E s \in ElementStreams :
    /\ streams[s].live
    /\ streams[s].n = 2
    /\ nEvents = 2
    /\ streams[s].lastV = offset(streams[s].target)
    /\ streams[s].lastV # content[streams[s].target]
    /\ \E i \in OnStream(s) : subs[i].cnt = 2

\* the value a debounceTime holds is the latest emission of the base stream
C12_HeldIsLatest ==
  \A i \in DOMAIN subs :
    (subs[i].active /\ subs[i].debV # Absent) =>
      subs[i].debV = streams[StreamOf(i)].lastV

\* C12: every emission of a derived stream (resize, throttleBy, resizeStart,
\* resizeEnd) carries the value of the latest base emission, made at or before
\* that moment, and that base emission is a later one than the base emission
\* the subscriber's previous emission came from: a subscriber sees a
\* subsequence of the base emissions, in their order.
C12_DerivedInBaseOrder ==
  /\ []C12_HeldIsLatest
  /\ [][\A i \in DOMAIN subs :
          (subs[i].active /\ Received(i)) =>
            LET s == StreamOf(i)
            IN  /\ streams'[s].n > 0
                /\ streams'[s].lastT <= now
                /\ subs'[i].lastV = streams'[s].lastV
                /\ subs[i].seq < streams'[s].n
                /\ subs'[i].seq = streams'[s].n]_vars

C12_Witness ==
  \E i, j \in DOMAIN subs :
    /\ subs[i].via = "resizeEnd" /\ subs[j].via \in {"resize", "throttleBy"}
    /\ subs[i].cnt = 1 /\ subs[i].seq = 2 /\ subs[i].lastT >= subs[i].time
    /\ subs[j].cnt = 2 /\ subs[j].seq = 3
    /\ streams[StreamOf(j)].n = 3

\* the cache entry and the native registrations of every observed element
Registered ==
  \A e \in Elements :
    OBSERVER_CACHE[e] # 0 => roObserved[e] = 1 /\ moObserved[e] = 1

C13_UnsubscribeStep(i) ==
  LET s == StreamOf(i)
      others == {j \in DOMAIN subs : j # i /\ subs[j].active /\ StreamOf(j) = s}
  IN  Unsubscribe(i) =>
        /\ ~subs'[i].active
        /\ \A j \in DOMAIN subs : j # i => subs'[j] = subs[j]
        /\ others # {} => streams' = streams
        /\ OBSERVER_CACHE' = OBSERVER_CACHE
        /\ roObserved' = roObserved /\ moObserved' = moObserved

\* C13: an unsubscribed subscriber receives nothing more; the unsubscription
\* changes no other subscription, nor the base stream while another subscriber
\* is on it, nor the cache and the native registrations; and whatever was
\* unsubscribed before, a geometry record that is a change reaches every
\* subscriber in place whose throttle window is closed, one subscribed after all
\* the others left included.
C13_UnsubscribeStopsOnlyThatSubscriber ==
  /\ []Registered
  /\ [][\A i \in DOMAIN subs :
          /\ ~subs[i].active => (Missed(i) /\ ~subs'[i].active)
          /\ C13_UnsubscribeStep(i)
          /\ LET s == StreamOf(i)
                 e == streams[s].target
                 v == content'[e]
             IN  (subs[i].active /\ subs[i].throttled = 0 /\ e \in Elements
                    /\ GeometryRecord(e, v) /\ Change(s, v)) => ReceivedNow(i, v)]_vars

C13_Witness ==
  \E i, j \in DOMAIN subs :
    /\ ~subs[i].active /\ subs[i].via = "resize" /\ subs[i].cnt = 1
    /\ subs[j].active /\ subs[j].via = "resize"
    /\ subs[j].n0 = 1 /\ subs[j].cnt = 1
    /\ subs[j].lastV = subs[i].lastV
    /\ streams[StreamOf(j)].n = 2
    /\ Registered

\* what the last observe call returned is the manager's entry for its target
C14_ReturnsEntry ==
  lastObserve # NoCall =>
    /\ lastObserve.ret = manager[lastObserve.target]
    /\ lastObserve.ret \in DOMAIN observers
    /\ observers[lastObserve.ret].target = lastObserve.target

C14_ObserveStep(t, tt) ==
  Observe(t, tt) =>
    IF manager[t] = 0
    THEN /\ Len(observers') = Len(observers) + 1
         /\ manager'[t] = Len(observers')
         /\ lastObserve'.built
         /\ lastObserve'.ret = manager'[t]
    ELSE /\ observers' = observers
         /\ manager' = manager
         /\ ~lastObserve'.built
         /\ lastObserve'.ret = manager[t]

\* C14: observe constructs an observer exactly when the manager has no entry
\* for the target and returns the entry otherwise, an entry never changes, and
\* root returns the entry of the window.
C14_ManagerBuildsOncePerTarget ==
  /\ []C14_ReturnsEntry
  /\ [][/\ \A t \in Targets : \A tt \in CtorTimes : C14_ObserveStep(t, tt)
        /\ \A t \in Targets : manager[t] # 0 => manager'[t] = manager[t]
        /\ Root => (lastObserve'.target = Window
                      /\ lastObserve'.ret = manager'[Window]
                      /\ (manager[Window] # 0 => lastObserve'.ret = manager[Window]))]_vars

C14_Witness ==
  /\ manager["E"] # 0
  /\ manager[Window] # 0
  /\ lastObserve.target = Window
  /\ ~lastObserve.built
  /\ lastObserve.ret = manager[Window]
  /\ Len(observers) = 2

\* C15: a mutation record whose target is another element than the one a base
\* stream was built for never makes that base stream emit.
C15_OtherElementsMutationIgnored ==
  [][\A s \in ElementStreams : \A f \in Elements \ {streams[s].target} :
       \A type \in MutationTypes :
         MutationRecord(f, type) => ~BaseEmits(s)]_vars

\* C16: a geometry record for one element leaves the base stream of every other
\* element as it was, and when it makes its own element's base stream emit, the
\* emission carries the record's content-box width and height to every subscriber.
C16_GeometryFilteredByTarget ==
  [][\A s \in ElementStreams : \A f \in Elements :
       LET v == content'[f]
       IN  GeometryRecord(f, v) =>
             IF f # streams[s].target
             THEN /\ streams'[s] = streams[s]
                  /\ \A i \in OnStream(s) : Missed(i)
             ELSE BaseEmits(s) =>
                    /\ streams'[s].lastV = v
                    /\ \A i \in OnStream(s) : ReceivedNow(i, v)]_vars

C16_Witness ==
  \E s, t \in ElementStreams :
    /\ streams[s].target = "E" /\ streams[t].target = "F"
    /\ streams[s].n = 1 /\ streams[t].n = 1
    /\ streams[s].lastV = content["E"] /\ streams[t].lastV = content["F"]
    /\ content["E"] # content["F"]
    /\ nEvents = 2
    /\ \E i \in OnStream(s) : subs[i].cnt = 1
    /\ \E j \in OnStream(t) : subs[j].cnt = 1

\* the positive intervals asked of observer oi so far, by throttleBy or by resize
Requested(oi) ==
  {subs[i].arg : i \in {k \in DOMAIN subs : subs[k].obs = oi /\ subs[k].arg > 0}}

C17_BufferMatchesRequests ==
  \A oi \in DOMAIN observers :
    LET o == observers[oi]
    IN  /\ DOMAIN o.buffer = Requested(oi)
        /\ o.made = Cardinality(Requested(oi))
        /\ \A t1, t2 \in DOMAIN o.buffer : t1 # t2 => o.buffer[t1] # o.buffer[t2]
        /\ \A i \in DOMAIN subs :
             (subs[i].obs = oi /\ subs[i].arg > 0) =>
               /\ subs[i].kind = "throttle"
               /\ subs[i].time = subs[i].arg
               /\ subs[i].pipe = o.buffer[subs[i].arg]

\* C17: an observer's throttle sub-cache holds one stream for each positive
\* interval asked of it so far and nothing else, each built once; every call for
\* an interval got the stream the sub-cache holds for it; and an entry, once
\* there, stays as it is.
C17_OneStreamPerInterval ==
  /\ []C17_BufferMatchesRequests
  /\ [][\A oi \in DOMAIN observers : \A t \in DOMAIN observers[oi].buffer :
          /\ t \in DOMAIN observers'[oi].buffer
          /\ observers'[oi].buffer[t] = observers[oi].buffer[t]]_vars

C17_Witness ==
  \E i, j \in DOMAIN subs :
    /\ i # j
    /\ subs[i].obs = subs[j].obs
    /\ subs[i].via = "resize" /\ subs[j].via = "throttleBy"
    /\ subs[i].arg = subs[j].arg
    /\ subs[i].pipe = subs[j].pipe
    /\ observers[subs[i].obs].made = 1

\* C18: for a resizeStart and a resizeEnd subscription of one observer, both made
\* in the same idle period, the emissions alternate beginning with resizeStart:
\* resizeEnd never has emitted more often than resizeStart, and resizeStart at
\* most once more than resizeEnd.
C18_StartEndAlternate ==
  \A i \in IdleSubs("start"), j \in IdleSubs("end") :
    (subs[i].obs = subs[j].obs /\ subs[i].n0 = subs[j].n0) =>
      /\ subs[j].cnt <= subs[i].cnt
      /\ subs[i].cnt <= subs[j].cnt + 1

\* the observer a constructing observe call returned has the call's throttle time
C19_BuiltWithCallTime ==
  (lastObserve # NoCall /\ lastObserve.built) =>
    observers[lastObserve.ret].throttleTime = lastObserve.throttleTime

\* C19: the observer built by the first observe call for a target keeps that
\* call's throttle time: an observe call for a target the manager holds returns
\* the held observer and changes neither an observer (default interval, base
\* stream, throttle sub-cache) nor a base stream, no step changes an observer's
\* default interval or base stream, and a subscription to resize is throttled
\* by the observer's default interval.
C19_FirstObserveFixesInterval ==
  /\ []C19_BuiltWithCallTime
  /\ [][/\ \A t \in Targets : \A t2 \in CtorTimes :
             (manager[t] # 0 /\ Observe(t, t2)) =>
               /\ lastObserve'.ret = manager[t]
               /\ observers' = observers
               /\ streams' = streams
               /\ OBSERVER_CACHE' = OBSERVER_CACHE
        /\ \A oi \in DOMAIN observers :
             /\ observers'[oi].throttleTime = observers[oi].throttleTime
             /\ observers'[oi].provider = observers[oi].provider
             /\ SubscribeResize(oi) =>
                  /\ subs'[Len(subs')].obs = oi
                  /\ subs'[Len(subs')].kind = "throttle"
                  /\ subs'[Len(subs')].time = observers[oi].throttleTime]_vars

C19_Witness ==
  /\ lastObserve # NoCall
  /\ ~lastObserve.built
  /\ observers[lastObserve.ret].throttleTime = ShortTime
  /\ lastObserve.throttleTime = DefaultThrottleTime
  /\ \E i \in DOMAIN subs :
       /\ subs[i].obs = lastObserve.ret
       /\ subs[i].via = "resize"
       /\ subs[i].time = ShortTime
       /\ subs[i].cnt = 2

\* the deduplication memory of a base stream exists only with a subscriber
C20_MemoryNeedsSubscriber ==
  \A s \in ElementStreams : streams[s].live => Connected(s)

\* a record for the element of base stream s that offers the pair v
C20_Record(s, v) ==
  LET e == streams[s].target
  IN  \/ v = content'[e] /\ GeometryRecord(e, v)
      \/ v = offset(e) /\ \E type \in MutationTypes \ {"attributes"} :
                            MutationRecord(e, type)

\* C20: a base stream remembers its last pair only while it has a subscriber.
\* The first geometry or non-attribute mutation record after a subscriber joined
\* a stream without subscribers is emitted to every subscriber whatever its pair,
\* the pair emitted before the unsubscription included; while a subscriber has
\* been present since the last emission a record with that pair is suppressed;
\* the memory survives every step that leaves a subscriber on the stream.
C20_DedupMemoryDiesWithLastSubscriber ==
  /\ []C20_MemoryNeedsSubscriber
  /\ [][\A s \in ElementStreams :
          /\ \A v \in {content'[streams[s].target], offset(streams[s].target)} :
               (Connected(s) /\ C20_Record(s, v)) =>
                 IF streams[s].live
                 THEN v = streams[s].lastV =>
                        /\ ~BaseEmits(s)
                        /\ \A i \in OnStream(s) : ~Received(i)
                 ELSE /\ BaseEmits(s)
                      /\ \A i \in OnStream(s) : ReceivedNow(i, v)
          /\ (streams[s].live /\ Connected(s)') => streams'[s].live]_vars

C20_Witness ==
  \E s \in ElementStreams : \E i, j \in DOMAIN subs :
    /\ StreamOf(i) = s /\ StreamOf(j) = s
    /\ ~subs[i].active /\ subs[i].cnt = 1
    /\ subs[j].active /\ subs[j].n0 = 1 /\ subs[j].cnt = 1
    /\ subs[j].lastV = subs[i].lastV
    /\ streams[s].n = 2
    /\ streams[s].live
====
